---- MODULE Spec2Model ----
(***************************************************************************)
(* Favourites endpoint (/api/recipes/favourite) of the recipe application, *)
(* with the store it writes (prisma.favouriteRecipes), the upstream        *)
(* lookup it calls (getFavouriteRecipesByIDs) and the credential rotator   *)
(* behind that lookup.                                                     *)
(*                                                                         *)
(* The handler is modelled request by request: one action per HTTP method, *)
(* each applying the whole handler to the request, the store and the       *)
(* outcome of the upstream lookup.                                         *)
(***************************************************************************)
EXTENDS Integers, Sequences, FiniteSets, TLC

VARIABLES
    store,          \* rows of prisma.favouriteRecipes, in the order findMany returns them
    request,        \* the request handled last
    upstream,       \* what the upstream lookup did on that request
    response,       \* the response written for that request
    upstreamCalls,  \* calls of getFavouriteRecipesByIDs made by that request
    exhausted,      \* Key Rotator: credentials flagged exhausted
    selected,       \* Key Rotator: result of the last selectCredential
    marked,         \* history: the credentials markExhausted was called for, in the order of their first call
    rotatorOp,      \* Key Rotator: the operation performed last
    cache,          \* Response Cache: key -> entry
    clock,          \* the current time
    written,        \* history: per key, the last set or invalidate
    cacheGot,       \* Response Cache: key and result of the last get
    cacheOp,        \* Response Cache: the operation performed last
    fpc,            \* Upstream Client: per caller, where its fetch call stands
    fkey,           \* Upstream Client: per caller, the cache key of its call
    fcred,          \* Upstream Client: per caller, the credential in use (0: none)
    fretried,       \* Upstream Client: per caller, whether the call has retried
    fhttp,          \* history: per caller, HTTP requests issued by its call
    fquotas,        \* history: per caller, quota responses its call received
    fresult,        \* Upstream Client: per caller, what its call returned
    freceived,      \* history: per key, the payloads 2xx responses carried
    users,          \* rows of prisma.user
    userOp,         \* "signup" or "authorize", whichever ran last
    credentials,    \* the body of that signup, or the credentials of that authorize
    dbUp,           \* whether the database answered during it
    signupResponse, \* the response of the last signup
    authorized,     \* what the last authorize returned (<<>> is null)
    signedUp,       \* history: email, password and id of every sign-up answered 201
    postBody,       \* the body the concurrent POST requests carry
    ppc,            \* where each concurrent POST request is
    presponse,      \* the response each concurrent POST request got
    rbody,          \* the body of each concurrent sign-up request
    rpc,            \* where each concurrent sign-up request is
    rchecked,       \* history: the request found no existing user
    rresponse,      \* the response each concurrent sign-up request got
    token,          \* the JWT of the signed-in user
    session,        \* the session last built from it
    jwtArgs,        \* user, account and profile of the last jwt callback
    signedInWith,   \* provider of the sign-in that produced the token
    jwtOp           \* "signIn", "refresh" or "session", whichever ran last

favVars == <<store, request, upstream, response, upstreamCalls>>
rotVars == <<exhausted, selected, marked, rotatorOp>>
cacheVars == <<cache, clock, written, cacheGot, cacheOp>>

fetchVars == <<fpc, fkey, fcred, fretried, fhttp, fquotas, fresult, freceived>>

userVars ==
    <<users, userOp, credentials, dbUp, signupResponse, authorized, signedUp>>

postVars == <<postBody, ppc, presponse>>

raceVars == <<rbody, rpc, rchecked, rresponse>>

jwtVars == <<token, session, jwtArgs, signedInWith, jwtOp>>

vars ==
    <<favVars, rotVars, cacheVars, fetchVars, userVars, postVars, raceVars,
      jwtVars>>

\* what the favourites handler, the Key Rotator and the Response Cache
\* each leave alone
outsideFav == <<rotVars, cacheVars, fetchVars, userVars, postVars, raceVars, jwtVars>>
outsideRot == <<favVars, cacheVars, fetchVars, userVars, postVars, raceVars, jwtVars>>
outsideCache == <<favVars, rotVars, fetchVars, userVars, postVars, raceVars, jwtVars>>
outsideFetch ==
    <<favVars, selected, rotatorOp, clock, cacheGot, cacheOp, userVars, postVars,
      raceVars, jwtVars>>
outsideUsers == <<favVars, rotVars, cacheVars, fetchVars, postVars, raceVars, jwtVars>>
outsidePost ==
    <<request, upstream, response, upstreamCalls, rotVars, cacheVars, fetchVars,
      userVars, raceVars, jwtVars>>
outsideRace ==
    <<favVars, rotVars, cacheVars, fetchVars, userOp, credentials, dbUp,
      signupResponse, authorized, signedUp, postVars, jwtVars>>
outsideJwt ==
    <<favVars, rotVars, cacheVars, fetchVars, userVars, postVars, raceVars>>

----------------------------------------------------------------------------
(* Bounds *)

MaxRecipes == 3
NumCredentials == 4
MaxClock == 3
MaxTtl == 2

\* Recipe IDs a request body may carry: 0 (falsy in JavaScript) and the
\* three-digit IDs 101, 102, ... of the spec's scenarios.
RecipeIds == {0} \cup {100 + i : i \in 1..MaxRecipes}

Credentials == 1..NumCredentials

----------------------------------------------------------------------------
(* JavaScript conversions used by the GET branch *)

RECURSIVE toString(_)
\* Number.prototype.toString on a non-negative integer: its decimal digits.
toString(n) ==
    IF n < 10 THEN <<n>> ELSE Append(toString(n \div 10), n % 10)

RECURSIVE parseIntFrom(_, _)
parseIntFrom(acc, s) ==
    IF Len(s) = 0 THEN acc ELSE parseIntFrom(acc * 10 + Head(s), Tail(s))

\* parseInt on a string of decimal digits.
parseInt(s) == parseIntFrom(0, s)

Range(s) == {s[i] : i \in 1..Len(s)}

----------------------------------------------------------------------------
(* Errors: an Error object is its numeric code (0 when it has none) and   *)
(* the substrings its message contains among those the handler tests for. *)

Err(code, markers) == [code |-> code, markers |-> markers]

NoError == Err(0, {})

\* String.prototype.includes on an error message
includes(error, marker) == marker \in error.markers

\* Prisma P2002, "Unique constraint failed on the fields: (`recipeId`)"
UniqueConstraintError == Err(0, {"Unique constraint"})

\* Prisma P2025, "Record to delete does not exist."
RecordNotFoundError == Err(0, {})

----------------------------------------------------------------------------
(* prisma.favouriteRecipes: rows carry recipeId, which is unique.          *)
(* A call yields the rows afterwards and either a value or a thrown error. *)

Row(recipeId) == [recipeId |-> recipeId]

StoredIds(st) == {st[i].recipeId : i \in 1..Len(st)}

\* prisma.favouriteRecipes.create({ data: { recipeId } })
create(st, recipeId) ==
    IF recipeId \in StoredIds(st)
    THEN [threw |-> TRUE, error |-> UniqueConstraintError, store |-> st,
          row |-> <<>>]
    ELSE [threw |-> FALSE, error |-> NoError,
          store |-> Append(st, Row(recipeId)), row |-> <<Row(recipeId)>>]

\* prisma.favouriteRecipes.findMany()
findMany(st) == st

\* prisma.favouriteRecipes.delete({ where: { recipeId } }): throws when no
\* row matches.
delete(st, recipeId) ==
    IF recipeId \notin StoredIds(st)
    THEN [threw |-> TRUE, error |-> RecordNotFoundError, store |-> st]
    ELSE [threw |-> FALSE, error |-> NoError,
          store |-> SelectSeq(st, LAMBDA row : row.recipeId # recipeId)]

----------------------------------------------------------------------------
(* Request bodies *)

Body(has, recipeId) == [has |-> has, recipeId |-> recipeId]

\* a body without the recipeId field
NoRecipeId == Body(FALSE, 0)

Bodies == {NoRecipeId} \cup {Body(TRUE, r) : r \in RecipeIds}

\* const { recipeId } = request.body; the test !recipeId holds for an absent
\* field (undefined) and for the number 0.
notRecipeId(body) == ~body.has \/ body.recipeId = 0

----------------------------------------------------------------------------
(* Response bodies, all of one shape.                                      *)

Json(kind, error, message, results, record) ==
    [kind |-> kind, error |-> error, message |-> message,
     results |-> results, record |-> record]

EmptyBody == Json("empty", "", "", <<>>, <<>>)

ErrorBody(error, message) == Json("error", error, message, <<>>, <<>>)

\* a ResolvedFavourite with the upstream's details
FullRecord(id) == [id |-> id, title |-> <<"upstream title", <<>>, "">>,
                   apiUnavailable |-> FALSE]

\* degradedRecord without the _apiUnavailable flag set
degradedRecord_unflagged(id) ==
    [id |-> parseInt(id),
     title |-> <<"Recipe #", id, " (Details unavailable - API limit reached)">>,
     apiUnavailable |-> FALSE]

\* the degraded record the handler builds from a stored ID string
degradedRecord(id) ==
    [id |-> parseInt(id),
     title |-> <<"Recipe #", id, " (Details unavailable - API limit reached)">>,
     apiUnavailable |-> TRUE]

apiLimitMessage ==
    "Your favourites are saved, but recipe details are temporarily unavailable due to API daily limit. They will appear once the limit resets."

----------------------------------------------------------------------------
(* The upstream lookup, lib/recipe-api.ts getFavouriteRecipesByIDs.        *)
(* An outcome is what the Upstream Client met on one bulk-detail call:     *)
(* the records the upstream answered with, or the failure it classified.   *)

Outcome(kind, error, records) ==
    [kind |-> kind, error |-> error, records |-> records]

\* the lookup was not made
NotCalled == Outcome("none", NoError, <<>>)

\* The failures of the Upstream Client as the thrown error shows them:
\* QuotaExceeded is HTTP 402 or a body with a quota-exhaustion marker,
\* Transient a network error without status, Fatal any other status.
UpstreamFailures ==
    {Outcome("QuotaExceeded", Err(402, {}), <<>>),
     Outcome("QuotaExceeded", Err(402, {"daily limit"}), <<>>),
     Outcome("QuotaExceeded", Err(0, {"points limit"}), <<>>),
     Outcome("QuotaExceeded", Err(0, {"daily limit"}), <<>>),
     Outcome("Transient", Err(0, {}), <<>>),
     Outcome("Fatal", Err(500, {}), <<>>),
     Outcome("Fatal", Err(404, {}), <<>>)}

\* sequences over S without repetition
RECURSIVE Arrangements(_)
Arrangements(S) ==
    {<<>>} \cup UNION {{<<x>> \o t : t \in Arrangements(S \ {x})} : x \in S}

\* A successful bulk-detail answer: records for any subset of the IDs asked
\* for, in any order.
UpstreamAnswers(ids) ==
    {Outcome("ok", NoError, a) : a \in Arrangements(ids)}

Outcomes(ids) == UpstreamFailures \cup UpstreamAnswers(ids)

\* the entry for an ID the upstream's answer has no record of
PlaceholderRecord(id) == [id |-> id, title |-> <<"placeholder", <<>>, "">>,
                          apiUnavailable |-> TRUE]

\* resolve(ids): on failure the error is thrown; on success one
\* ResolvedFavourite per ID asked for, in the order asked, the upstream's
\* records re-keyed by ID.
getFavouriteRecipesByIDs(ids, outcome) ==
    IF outcome.kind # "ok"
    THEN [threw |-> TRUE, error |-> outcome.error, results |-> <<>>]
    ELSE [threw |-> FALSE, error |-> NoError,
          results |->
              [i \in 1..Len(ids) |->
                  IF parseInt(ids[i]) \in Range(outcome.records)
                  THEN FullRecord(parseInt(ids[i]))
                  ELSE PlaceholderRecord(parseInt(ids[i]))]]

----------------------------------------------------------------------------
(* The handler. A branch yields the rows afterwards, the status and body   *)
(* it answered with, the upstream calls it made, and the error it threw    *)
(* out of the try block, if any.                                           *)

Answer(st, status, body, calls) ==
    [store |-> st, status |-> status, body |-> body, calls |-> calls,
     threw |-> FALSE, error |-> NoError]

Throw(st, error, calls) ==
    [store |-> st, status |-> 0, body |-> EmptyBody, calls |-> calls,
     threw |-> TRUE, error |-> error]

\* setCorsHeaders setting the origin header alone
setCorsHeaders_originOnly == {<<"Access-Control-Allow-Origin", "*">>}

\* setCorsHeaders(response): the headers it sets
setCorsHeaders ==
    {<<"Access-Control-Allow-Origin", "*">>,
     <<"Access-Control-Allow-Methods", "GET, POST, DELETE, OPTIONS">>,
     <<"Access-Control-Allow-Headers", "Content-Type">>}

\* handlePOST writing the row before it validates the body
handlePOST_createFirst(body, st) ==
    LET favouriteRecipe == create(st, body.recipeId)
    IN  IF notRecipeId(body)
        THEN Answer(favouriteRecipe.store, 400,
                    ErrorBody("Recipe ID is required", ""), 0)
        ELSE IF favouriteRecipe.threw
        THEN Throw(favouriteRecipe.store, favouriteRecipe.error, 0)
        ELSE Answer(favouriteRecipe.store, 201,
                    Json("record", "", "", <<>>, favouriteRecipe.row), 0)

\* POST: Add favorite recipe
handlePOST(body, st) ==
    IF notRecipeId(body)
    THEN Answer(st, 400, ErrorBody("Recipe ID is required", ""), 0)
    ELSE LET favouriteRecipe == create(st, body.recipeId)
         IN  IF favouriteRecipe.threw
             THEN Throw(favouriteRecipe.store, favouriteRecipe.error, 0)
             ELSE Answer(favouriteRecipe.store, 201,
                         Json("record", "", "", <<>>, favouriteRecipe.row), 0)

\* recipeIdsOf with the rows taken newest first
recipeIdsOf_reversed(recipes) ==
    [i \in 1..Len(recipes) |-> toString(recipes[Len(recipes) + 1 - i].recipeId)]

\* recipes.map((recipe) => recipe.recipeId.toString())
recipeIdsOf(recipes) ==
    [i \in 1..Len(recipes) |-> toString(recipes[i].recipeId)]

\* noFavourites with the early return lost
noFavourites_never(recipeIds) == FALSE

\* recipeIds.length === 0
noFavourites(recipeIds) == Len(recipeIds) = 0

\* isApiLimitError testing the status code alone
isApiLimitError_codeOnly(apiError) == apiError.code = 402

\* isApiLimitError testing for any status code, not for 402
isApiLimitError_anyCode(apiError) ==
    \/ apiError.code # 0
    \/ includes(apiError, "points limit")
    \/ includes(apiError, "daily limit")

isApiLimitError(apiError) ==
    \/ apiError.code = 402
    \/ includes(apiError, "points limit")
    \/ includes(apiError, "daily limit")

\* recipeIds.map(id => ({ id: parseInt(id), title: ..., _apiUnavailable: true }))
degradedResults(recipeIds) ==
    [i \in 1..Len(recipeIds) |-> degradedRecord(recipeIds[i])]

\* handleGET clearing the favourites it could not resolve
handleGET_clearsOnError(st, outcome) ==
    LET recipes == findMany(st)
        recipeIds == recipeIdsOf(recipes)
    IN  IF noFavourites(recipeIds)
        THEN Answer(st, 200, Json("results", "", "", <<>>, <<>>), 0)
        ELSE LET favourites == getFavouriteRecipesByIDs(recipeIds, outcome)
             IN  IF ~favourites.threw
                 THEN Answer(st, 200,
                             Json("results", "", "", favourites.results, <<>>), 1)
                 ELSE IF isApiLimitError(favourites.error)
                 THEN Answer(st, 200,
                             Json("results", "", apiLimitMessage,
                                  degradedResults(recipeIds), <<>>), 1)
                 ELSE Throw(<<>>, favourites.error, 1)

\* GET: Get all favorite recipes
handleGET(st, outcome) ==
    LET recipes == findMany(st)
        recipeIds == recipeIdsOf(recipes)
    IN  IF noFavourites(recipeIds)
        THEN Answer(st, 200, Json("results", "", "", <<>>, <<>>), 0)
        ELSE LET favourites == getFavouriteRecipesByIDs(recipeIds, outcome)
             IN  IF ~favourites.threw
                 THEN Answer(st, 200,
                             Json("results", "", "", favourites.results, <<>>), 1)
                 ELSE IF isApiLimitError(favourites.error)
                 THEN Answer(st, 200,
                             Json("results", "", apiLimitMessage,
                                  degradedResults(recipeIds), <<>>), 1)
                 ELSE Throw(st, favourites.error, 1)

\* DELETE: Remove favorite recipe
handleDELETE(body, st) ==
    IF notRecipeId(body)
    THEN Answer(st, 400, ErrorBody("Recipe ID is required", ""), 0)
    ELSE LET deleted == delete(st, body.recipeId)
         IN  IF deleted.threw
             THEN Throw(deleted.store, deleted.error, 0)
             ELSE Answer(deleted.store, 204, EmptyBody, 0)

\* the outer catch block
catch(branch) ==
    IF includes(branch.error, "Unique constraint")
    THEN Answer(branch.store, 409,
                ErrorBody("Recipe is already in favorites", ""), branch.calls)
    ELSE Answer(branch.store, 500,
                ErrorBody("Oops, something went wrong", "error.message"),
                branch.calls)

\* the try block
try(req, st, outcome) ==
    CASE req.method = "POST" -> handlePOST(req.body, st)
      [] req.method = "GET" -> handleGET(st, outcome)
      [] req.method = "DELETE" -> handleDELETE(req.body, st)
      [] OTHER -> Answer(st, 405, ErrorBody("Method not allowed", ""), 0)

Response(status, headers, body) ==
    [status |-> status, headers |-> headers, body |-> body]

\* export default async function handler(request, response)
handler(req, st, outcome) ==
    IF req.method = "OPTIONS"
    THEN [store |-> st, calls |-> 0,
          response |-> Response(200, setCorsHeaders, EmptyBody)]
    ELSE LET headers == setCorsHeaders
             branch == try(req, st, outcome)
             done == IF branch.threw THEN catch(branch) ELSE branch
         IN  [store |-> done.store, calls |-> done.calls,
              response |-> Response(done.status, headers, done.body)]

----------------------------------------------------------------------------
(* Key Rotator, lib/api-key-tracker.ts *)

Selected(ok, credential) == [ok |-> ok, credential |-> credential]

NoCredentialsAvailable == Selected(FALSE, 0)

\* selectCredential that does not skip exhausted credentials
selectCredential_noSkip(exh) ==
    Selected(TRUE, CHOOSE c \in Credentials : \A d \in Credentials : c <= d)

\* the first credential in priority order that is not flagged exhausted
selectCredential(exh) ==
    IF Credentials \ exh = {}
    THEN NoCredentialsAvailable
    ELSE Selected(TRUE, CHOOSE c \in Credentials \ exh :
                            \A d \in Credentials \ exh : c <= d)

\* markExhausted that overwrites the flags instead of adding to them
markExhausted_overwrite(exh, credential) == {credential}

markExhausted(exh, credential) == exh \cup {credential}

----------------------------------------------------------------------------
(* Response Cache: cache-aside store of upstream payloads, each entry with *)
(* its insertion time and its TTL.                                         *)

\* normalised request fingerprints
Keys == {"k1", "k2"}

\* upstream JSON payloads
Values == {"v1", "v2"}

Ttls == 1..MaxTtl

Entry(value, insertedAt, ttl) ==
    [present |-> TRUE, value |-> value, insertedAt |-> insertedAt, ttl |-> ttl]

NoEntry == [present |-> FALSE, value |-> "", insertedAt |-> 0, ttl |-> 0]

Hit(value) == [hit |-> TRUE, value |-> value]

Miss == [hit |-> FALSE, value |-> ""]

\* get that never looks at the entry's age
get_noExpiry(c, key, now) ==
    IF c[key].present THEN Hit(c[key].value) ELSE Miss

\* get(key): entries past their TTL read as Miss (lazy expiry)
get(c, key, now) ==
    IF c[key].present /\ now - c[key].insertedAt < c[key].ttl
    THEN Hit(c[key].value)
    ELSE Miss

\* set(key, value, ttl): last write wins
set(c, key, value, ttl, now) == [c EXCEPT ![key] = Entry(value, now, ttl)]

\* invalidate(key)
invalidate(c, key) == [c EXCEPT ![key] = NoEntry]

Written(kind, value, at, ttl) ==
    [kind |-> kind, value |-> value, at |-> at, ttl |-> ttl]

NeverWritten == Written("none", "", 0, 0)

Got(key, result) == [key |-> key, result |-> result]

----------------------------------------------------------------------------
(* Upstream Client: fetch(endpoint, params), a cache-checked HTTP GET with *)
(* a credential of the Key Rotator.  Callers run concurrently; a call      *)
(* suspends at the cache lookup, at the HTTP request and at its response.  *)

Callers == {"a", "b"}

\* the fixed TTL of cached upstream payloads
FetchTtl == MaxTtl

HttpResponse(status, body) == [status |-> status, body |-> body]

\* what the upstream may answer; status 0 is a network error or timeout
HttpResponses ==
    {HttpResponse(200, v) : v \in Values} \cup
    {HttpResponse(402, "error"), HttpResponse(429, "quota marker"),
     HttpResponse(0, ""), HttpResponse(500, "error")}

classify(resp) ==
    IF resp.status = 0 THEN "Transient"
    ELSE IF resp.status = 402 \/ resp.body = "quota marker" THEN "QuotaExceeded"
    ELSE IF resp.status >= 200 /\ resp.status <= 299 THEN "ok"
    ELSE "Fatal"

FetchResult(kind, value) == [kind |-> kind, value |-> value]

NoResult == FetchResult("none", "")

\* canSend that issues the request without a credential
canSend_always(sel) == TRUE

\* a request is issued only with a credential selected
canSend(sel) == sel.ok

\* shouldRetry without the bound of one retry per call
shouldRetry_unbounded(kind, retried) == kind = "QuotaExceeded"

\* a quota response is retried once with the next credential
shouldRetry(kind, retried) == kind = "QuotaExceeded" /\ ~retried

\* cacheable that caches whatever came back
cacheable_any(kind) == TRUE

\* only a 2xx body is cached
cacheable(kind) == kind = "ok"

----------------------------------------------------------------------------
(* Strings of the sign-up and sign-in code: sequences of characters.  The  *)
(* empty sequence also stands for an absent (undefined) field, which the   *)
(* code treats alike (!email, !password, name?.trim() || null).            *)

\* String.prototype.toLowerCase
toLowerCase(str) == [i \in 1..Len(str) |-> IF str[i] = "A" THEN "a" ELSE str[i]]

RECURSIVE trimStart(_)
trimStart(str) ==
    IF Len(str) > 0 /\ Head(str) = " " THEN trimStart(Tail(str)) ELSE str

RECURSIVE trimEnd(_)
trimEnd(str) ==
    IF Len(str) > 0 /\ str[Len(str)] = " "
    THEN trimEnd(SubSeq(str, 1, Len(str) - 1))
    ELSE str

\* String.prototype.trim
trim(str) == trimEnd(trimStart(str))

\* [^\s@]+
isWord(str) == Len(str) > 0 /\ \A i \in 1..Len(str) : str[i] \notin {" ", "@"}

\* /^[^\s@]+@[^\s@]+\.[^\s@]+$/.test(email)
emailRegexTest(email) ==
    \E at \in 1..Len(email), dot \in 1..Len(email) :
        /\ email[at] = "@"
        /\ email[dot] = "."
        /\ at < dot
        /\ isWord(SubSeq(email, 1, at - 1))
        /\ isWord(SubSeq(email, at + 1, dot - 1))
        /\ isWord(SubSeq(email, dot + 1, Len(email)))

\* email.split("@")[0]
localPart(email) ==
    IF \E i \in 1..Len(email) : email[i] = "@"
    THEN LET at == CHOOSE i \in 1..Len(email) :
                       /\ email[i] = "@"
                       /\ \A j \in 1..(i - 1) : email[j] # "@"
         IN  SubSeq(email, 1, at - 1)
    ELSE email

Emails ==
    {<<>>,
     <<"a", "@", "x", ".", "c">>,
     <<"A", "@", "x", ".", "c">>,
     <<" ", "a", "@", "x", ".", "c">>,
     <<"a", "@", "y", ".", "c">>,
     <<"g", "@", "x", ".", "c">>,
     <<"a", "x", ".", "c">>}

Passwords ==
    {<<>>,
     <<"p", "w">>,
     <<"s", "e", "c", "r", "e", "t">>}

Names == {<<" ", "N">>}

----------------------------------------------------------------------------
(* bcryptjs: a hash is told apart from the text it was made of.            *)

saltRounds == 10

minPasswordLength == 6

Stored(hashed, text, rounds) ==
    [hashed |-> hashed, text |-> text, rounds |-> rounds]

\* a user row without password (password: null)
NoPassword == Stored(FALSE, <<>>, 0)

\* hash that keeps the password as it came
hash_plaintext(password, rounds) == Stored(FALSE, password, 0)

\* bcrypt.hash(password, saltRounds)
hash(password, rounds) == Stored(TRUE, password, rounds)

\* compare that accepts any password
compare_any(password, stored) == TRUE

\* bcrypt.compare(password, dbUser.password)
compare(password, stored) == stored.hashed /\ stored.text = password

----------------------------------------------------------------------------
(* prisma.user: id and email are unique.                                   *)

UserId(prefix, local, at) == [prefix |-> prefix, local |-> local, at |-> at]

User(id, email, name, password) ==
    [id |-> id, email |-> email, name |-> name, password |-> password,
     picture |-> <<>>]

\* a user that signed in with Google and has no password
GoogleUser ==
    User(UserId("google", <<"g">>, 0), <<"g", "@", "x", ".", "c">>, <<"G">>,
         NoPassword)

\* the database cannot be reached
ConnectionError == Err(0, {"connect"})

\* prisma.user.findUnique({ where: { email } }): <<>> is null
findUnique(us, email, up) ==
    IF ~up
    THEN [threw |-> TRUE, error |-> ConnectionError, found |-> <<>>]
    ELSE IF \E u \in us : u.email = email
    THEN [threw |-> FALSE, error |-> NoError,
          found |-> <<CHOOSE u \in us : u.email = email>>]
    ELSE [threw |-> FALSE, error |-> NoError, found |-> <<>>]

\* create on a table where the email is not unique
createUser_idOnly(us, data) ==
    IF \E u \in us : u.id = data.id
    THEN [threw |-> TRUE, error |-> UniqueConstraintError, users |-> us,
          row |-> <<>>]
    ELSE [threw |-> FALSE, error |-> NoError, users |-> us \cup {data},
          row |-> <<data>>]

\* prisma.user.create({ data, select })
createUser(us, data) ==
    IF \E u \in us : u.id = data.id \/ u.email = data.email
    THEN [threw |-> TRUE, error |-> UniqueConstraintError, users |-> us,
          row |-> <<>>]
    ELSE [threw |-> FALSE, error |-> NoError, users |-> us \cup {data},
          row |-> <<data>>]

----------------------------------------------------------------------------
(* POST /api/auth/signup *)

SignupBody(email, password, name) ==
    [email |-> email, password |-> password, name |-> name]

\* jsonResponse(body, status); user is <<>> when the body has none
SignupJson(status, error, message, user) ==
    [status |-> status, error |-> error, message |-> message, user |-> user]

SignupResult(us, resp) == [users |-> us, response |-> resp]

\* the catch block of POST
signupCatch(us, error) ==
    IF includes(error, "Unique constraint") \/ includes(error, "Unique")
    THEN SignupResult(us, SignupJson(409, "User already exists",
             "An account with this email already exists. Please sign in instead.",
             <<>>))
    ELSE IF includes(error, "connect") \/ includes(error, "timeout")
    THEN SignupResult(us, SignupJson(500, "Database error",
             "Failed to connect to database. Please try again.", <<>>))
    ELSE SignupResult(us, SignupJson(500, "Sign up failed", "error.message", <<>>))

\* user: { id, email, name } of the created row
signupUser(newUser) ==
    [id |-> newUser.id, email |-> newUser.email, name |-> newUser.name]

\* POST up to the existing-user check: the answer it stops with, if any
checkRequest(body, us, up) ==
    IF body.email = <<>> \/ body.password = <<>>
    THEN <<SignupResult(us, SignupJson(400, "Email and password are required",
                                       "", <<>>))>>
    ELSE IF Len(body.password) < minPasswordLength
    THEN <<SignupResult(us, SignupJson(400,
               "Password must be at least 6 characters long", "", <<>>))>>
    ELSE IF ~emailRegexTest(body.email)
    THEN <<SignupResult(us, SignupJson(400, "Invalid email format", "", <<>>))>>
    ELSE LET existingUser == findUnique(us, toLowerCase(trim(body.email)), up)
         IN  IF existingUser.threw
             THEN <<signupCatch(us, existingUser.error)>>
             ELSE IF existingUser.found # <<>>
             THEN <<SignupResult(us, SignupJson(409, "User already exists",
                        "An account with this email already exists. Please sign in instead.",
                        <<>>))>>
             ELSE <<>>

\* POST from the hash on: hash, user id, create, answer
createAccount(body, us, now) ==
    LET hashedPassword == hash(body.password, saltRounds)
        userId == UserId("user", localPart(body.email), now)
        newUser == createUser(us,
                       User(userId, toLowerCase(trim(body.email)),
                            trim(body.name), hashedPassword))
    IN  IF newUser.threw
        THEN signupCatch(newUser.users, newUser.error)
        ELSE SignupResult(newUser.users,
                 SignupJson(201, "",
                     "Account created successfully! Please sign in.",
                     <<signupUser(newUser.row[1])>>))

\* export async function POST(request)
POST(body, us, now, up) ==
    LET stopped == checkRequest(body, us, up)
    IN  IF stopped # <<>> THEN stopped[1] ELSE createAccount(body, us, now)

----------------------------------------------------------------------------
(* Credentials provider of NextAuth *)

\* authorize looking the email up as it was typed
authorize_rawEmail(creds, us, up) ==
    IF creds.email = <<>> \/ creds.password = <<>>
    THEN <<>>
    ELSE LET dbUser == findUnique(us, creds.email, up)
         IN  IF dbUser.threw
             THEN <<>>
             ELSE IF dbUser.found = <<>> \/ dbUser.found[1].password = NoPassword
             THEN <<>>
             ELSE IF compare(creds.password, dbUser.found[1].password)
             THEN <<[id |-> dbUser.found[1].id,
                     email |-> dbUser.found[1].email,
                     name |-> dbUser.found[1].name,
                     image |-> dbUser.found[1].picture]>>
             ELSE <<>>

\* async authorize(credentials): <<>> is null
authorize(creds, us, up) ==
    IF creds.email = <<>> \/ creds.password = <<>>
    THEN <<>>
    ELSE LET dbUser == findUnique(us, toLowerCase(trim(creds.email)), up)
         IN  IF dbUser.threw
             THEN <<>>
             ELSE IF dbUser.found = <<>> \/ dbUser.found[1].password = NoPassword
             THEN <<>>
             ELSE IF compare(creds.password, dbUser.found[1].password)
             THEN <<[id |-> dbUser.found[1].id,
                     email |-> dbUser.found[1].email,
                     name |-> dbUser.found[1].name,
                     image |-> dbUser.found[1].picture]>>
             ELSE <<>>

----------------------------------------------------------------------------
(* Concurrent POST requests to the favourites handler.  The handler runs   *)
(* up to its one await, prisma.favouriteRecipes.create, which the database *)
(* executes atomically; the rest of the handler touches no shared state.   *)

Posters == {"p", "q", "r"}

----------------------------------------------------------------------------
(* Concurrent sign-up requests for one account.  POST awaits the           *)
(* existing-user lookup and, later, the create; other requests run in      *)
(* between.  Date.now() is read right before the create.                   *)

Racers == {"s", "t", "u"}

\* the spellings of one email: equal after trim and toLowerCase
RaceEmails ==
    {e \in Emails : toLowerCase(trim(e)) = <<"a", "@", "x", ".", "c">>}

----------------------------------------------------------------------------
(* JavaScript values of the NextAuth callbacks: a string, a number or      *)
(* undefined.  A string is its characters followed by the timestamp that   *)
(* was appended to it, if any.                                             *)

Value(defined, text, stamp) ==
    [defined |-> defined, text |-> text, stamp |-> stamp]

Undefined == Value(FALSE, <<>>, <<>>)

Text(chars) == Value(TRUE, chars, <<>>)

\* Date.now()
Now(now) == Value(TRUE, <<>>, <<now>>)

\* String(v)
String(v) == IF v.defined THEN v ELSE Text(<<"undefined">>)

\* a + b where one operand is a string
plus(a, b) ==
    Value(TRUE, String(a).text \o String(b).text,
          String(a).stamp \o String(b).stamp)

\* the truthiness of a value
truthy(v) == v.defined /\ (v.text # <<>> \/ v.stamp # <<>>)

\* a || b
or(a, b) == IF truthy(a) THEN a ELSE b

\* email?.split("@")[0]
splitFirst(email) ==
    IF email.defined THEN Text(localPart(email.text)) ELSE Undefined

----------------------------------------------------------------------------
(* NextAuth callbacks *)

JwtUser(id, email, image) ==
    [id |-> id, email |-> email, name |-> Text(<<"N">>), image |-> image]

JwtUsers ==
    {JwtUser(id, email, image) :
         id \in {Undefined, Text(<<"u", "1">>)},
         email \in {Undefined, Text(<<"a", "@", "x", ".", "c">>)},
         image \in {Undefined, Text(<<"i", "m", "g">>)}}

Account(present, provider, access, refresh, expires) ==
    [present |-> present, provider |-> provider, access_token |-> access,
     refresh_token |-> refresh, expires_at |-> expires]

NoAccount == Account(FALSE, "", Undefined, Undefined, Undefined)

Providers == {"google", "credentials"}

Accounts ==
    {Account(TRUE, provider, Undefined, Undefined, Undefined) :
         provider \in Providers}
    \cup {Account(TRUE, provider, Text(<<"a", "t">>), Text(<<"r", "t">>),
                  Text(<<"e", "x", "p">>)) : provider \in Providers}

Profile(present, picture) == [present |-> present, picture |-> picture]

NoProfile == Profile(FALSE, Undefined)

Profiles == {NoProfile, Profile(TRUE, Text(<<"p", "i", "c">>))}

JwtArgs(user, account, profile) ==
    [user |-> user, account |-> account, profile |-> profile]

Token(id, email, name, picture, access, refresh, expires) ==
    [id |-> id, email |-> email, name |-> name, picture |-> picture,
     accessToken |-> access, refreshToken |-> refresh, expiresAt |-> expires]

NoToken ==
    Token(Undefined, Undefined, Undefined, Undefined, Undefined, Undefined,
          Undefined)

\* the token NextAuth hands to the jwt callback at sign-in
DefaultToken(user) ==
    Token(Undefined, user.email, user.name, user.image, Undefined, Undefined,
          Undefined)

\* user.id || user.email?.split("@")[0] + "_" + Date.now() || `user_${Date.now()}`
tokenId(user, now) ==
    or(or(user.id, plus(plus(splitFirst(user.email), Text(<<"_">>)), Now(now))),
       plus(Text(<<"user_">>), Now(now)))

\* the user part of the jwt callback
withUser(tok, user, now) ==
    IF user = <<>>
    THEN tok
    ELSE [tok EXCEPT !.id = tokenId(user[1], now),
                     !.email = user[1].email,
                     !.name = user[1].name,
                     !.picture = IF truthy(user[1].image) THEN user[1].image ELSE @]

\* the profile part of the jwt callback
withProfile(tok, account, profile) ==
    IF /\ profile.present
       /\ account.present
       /\ account.provider = "google"
       /\ truthy(profile.picture)
    THEN [tok EXCEPT !.picture = profile.picture]
    ELSE tok

\* the account part of an earlier jwt callback: any account is copied
withAccount_anyProvider(tok, account) ==
    IF account.present
    THEN [tok EXCEPT !.accessToken = account.access_token,
                     !.refreshToken = account.refresh_token,
                     !.expiresAt = account.expires_at]
    ELSE tok

\* the account part of the jwt callback
withAccount(tok, account) ==
    IF account.present /\ account.provider # "credentials"
    THEN [tok EXCEPT !.accessToken = account.access_token,
                     !.refreshToken = account.refresh_token,
                     !.expiresAt = account.expires_at]
    ELSE tok

\* async jwt({ token, user, account, profile })
jwt(tok, user, account, profile, now) ==
    withAccount(withProfile(withUser(tok, user, now), account, profile), account)

SessionUser(id, email, name, image, access) ==
    [id |-> id, email |-> email, name |-> name, image |-> image,
     accessToken |-> access]

Session(hasUser, user) == [hasUser |-> hasUser, user |-> user]

NoSession ==
    Session(FALSE, SessionUser(Undefined, Undefined, Undefined, Undefined,
                               Undefined))

\* the session NextAuth hands to the session callback
DefaultSession(tok) ==
    Session(TRUE, SessionUser(Undefined, tok.email, tok.name, tok.picture,
                              Undefined))

\* async session({ session, token })
sessionCallback(sess, tok) ==
    IF sess.hasUser
    THEN [sess EXCEPT !.user.id = tok.id,
                      !.user.accessToken = tok.accessToken,
                      !.user.image = IF truthy(tok.picture) THEN tok.picture ELSE @]
    ELSE sess

----------------------------------------------------------------------------
(* State machine *)

Request(method, body) == [method |-> method, body |-> body]

NoRequest == Request("none", NoRecipeId)

NoResponse == Response(0, {}, EmptyBody)

Init ==
    /\ store = <<>>
    /\ request = NoRequest
    /\ upstream = NotCalled
    /\ response = NoResponse
    /\ upstreamCalls = 0
    /\ exhausted = {}
    /\ selected = NoCredentialsAvailable
    /\ marked = <<>>
    /\ rotatorOp = "none"
    /\ cache = [k \in Keys |-> NoEntry]
    /\ clock = 0
    /\ written = [k \in Keys |-> NeverWritten]
    /\ cacheGot = Got("k1", Miss)
    /\ cacheOp = "none"
    /\ fpc = [p \in Callers |-> "idle"]
    /\ fkey = [p \in Callers |-> "k1"]
    /\ fcred = [p \in Callers |-> 0]
    /\ fretried = [p \in Callers |-> FALSE]
    /\ fhttp = [p \in Callers |-> 0]
    /\ fquotas = [p \in Callers |-> 0]
    /\ fresult = [p \in Callers |-> NoResult]
    /\ freceived = [k \in Keys |-> {}]
    /\ users = {GoogleUser}
    /\ userOp = "none"
    /\ credentials = SignupBody(<<>>, <<>>, <<>>)
    /\ dbUp = TRUE
    /\ signupResponse = SignupJson(0, "", "", <<>>)
    /\ authorized = <<>>
    /\ signedUp = {}
    /\ postBody = NoRecipeId
    /\ ppc = [p \in Posters |-> "idle"]
    /\ presponse = [p \in Posters |-> NoResponse]
    /\ rbody = [p \in Racers |-> SignupBody(<<>>, <<>>, <<>>)]
    /\ rpc = [p \in Racers |-> "idle"]
    /\ rchecked = [p \in Racers |-> FALSE]
    /\ rresponse = [p \in Racers |-> SignupJson(0, "", "", <<>>)]
    /\ token = NoToken
    /\ session = NoSession
    /\ jwtArgs = JwtArgs(<<>>, NoAccount, NoProfile)
    /\ signedInWith = "none"
    /\ jwtOp = "none"

\* one request handled from arrival to response
Handle(req, outcome) ==
    LET out == handler(req, store, outcome)
    IN  /\ request' = req
        /\ store' = out.store
        /\ response' = out.response
        /\ upstreamCalls' = out.calls
        /\ upstream' = IF out.calls > 0 THEN outcome ELSE NotCalled

Options ==
    /\ Handle(Request("OPTIONS", NoRecipeId), NotCalled)
    /\ UNCHANGED outsideFav

Post ==
    /\ \E body \in Bodies : Handle(Request("POST", body), NotCalled)
    /\ UNCHANGED outsideFav

Get ==
    /\ \E outcome \in Outcomes(StoredIds(store)) :
           Handle(Request("GET", NoRecipeId), outcome)
    /\ UNCHANGED outsideFav

Delete ==
    /\ \E body \in Bodies : Handle(Request("DELETE", body), NotCalled)
    /\ UNCHANGED outsideFav

Other ==
    /\ \E method \in {"PUT", "PATCH"} :
           Handle(Request(method, NoRecipeId), NotCalled)
    /\ UNCHANGED outsideFav

SelectCredential ==
    /\ selected' = selectCredential(exhausted)
    /\ rotatorOp' = "select"
    /\ UNCHANGED <<exhausted, marked>>
    /\ UNCHANGED outsideRot

MarkExhausted ==
    \E c \in Credentials :
        /\ exhausted' = markExhausted(exhausted, c)
        /\ marked' = IF c \in Range(marked) THEN marked ELSE Append(marked, c)
        /\ rotatorOp' = "mark"
        /\ UNCHANGED selected
        /\ UNCHANGED outsideRot

\* the favourites endpoint, request after request
Next ==
    \/ Options
    \/ Post
    \/ Get
    \/ Delete
    \/ Other

Spec == Init /\ [][Next]_vars

\* the Key Rotator, call after call
RotatorNext ==
    \/ SelectCredential
    \/ MarkExhausted

RotatorSpec == Init /\ [][RotatorNext]_vars

CacheSet ==
    \E k \in Keys, v \in Values, ttl \in Ttls :
        /\ cache' = set(cache, k, v, ttl, clock)
        /\ written' = [written EXCEPT ![k] = Written("set", v, clock, ttl)]
        /\ cacheOp' = "set"
        /\ UNCHANGED <<clock, cacheGot>>
        /\ UNCHANGED outsideCache

CacheGet ==
    \E k \in Keys :
        /\ cacheGot' = Got(k, get(cache, k, clock))
        /\ cacheOp' = "get"
        /\ UNCHANGED <<cache, clock, written>>
        /\ UNCHANGED outsideCache

CacheInvalidate ==
    \E k \in Keys :
        /\ cache' = invalidate(cache, k)
        /\ written' = [written EXCEPT ![k] = Written("invalidate", "", clock, 0)]
        /\ cacheOp' = "invalidate"
        /\ UNCHANGED <<clock, cacheGot>>
        /\ UNCHANGED outsideCache

\* time passes
Tick ==
    /\ clock < MaxClock
    /\ clock' = clock + 1
    /\ cacheOp' = "tick"
    /\ UNCHANGED <<cache, written, cacheGot>>
    /\ UNCHANGED outsideCache

\* the Response Cache, call after call, under a clock
CacheNext ==
    \/ CacheSet
    \/ CacheGet
    \/ CacheInvalidate
    \/ Tick

CacheSpec == Init /\ [][CacheNext]_vars

\* a caller calls fetch: the params are normalised into the cache key
FetchStart(p) ==
    \E k \in Keys :
        /\ fpc[p] \in {"idle", "done"}
        /\ fpc' = [fpc EXCEPT ![p] = "lookup"]
        /\ fkey' = [fkey EXCEPT ![p] = k]
        /\ fcred' = [fcred EXCEPT ![p] = 0]
        /\ fretried' = [fretried EXCEPT ![p] = FALSE]
        /\ fhttp' = [fhttp EXCEPT ![p] = 0]
        /\ fquotas' = [fquotas EXCEPT ![p] = 0]
        /\ fresult' = [fresult EXCEPT ![p] = NoResult]
        /\ UNCHANGED <<freceived, exhausted, marked, cache, written>>
        /\ UNCHANGED outsideFetch

\* cache lookup; return on hit
FetchLookup(p) ==
    /\ fpc[p] = "lookup"
    /\ LET found == get(cache, fkey[p], clock)
       IN  IF found.hit
           THEN /\ fresult' = [fresult EXCEPT ![p] = FetchResult("ok", found.value)]
                /\ fpc' = [fpc EXCEPT ![p] = "done"]
           ELSE /\ fpc' = [fpc EXCEPT ![p] = "select"]
                /\ UNCHANGED fresult
    /\ UNCHANGED <<fkey, fcred, fretried, fhttp, fquotas, freceived,
                   exhausted, marked, cache, written>>
    /\ UNCHANGED outsideFetch

\* obtain a credential; with none left, QuotaExceeded without a request
FetchSelect(p) ==
    /\ fpc[p] = "select"
    /\ LET sel == selectCredential(exhausted)
       IN  IF canSend(sel)
           THEN /\ fcred' = [fcred EXCEPT ![p] = sel.credential]
                /\ fpc' = [fpc EXCEPT ![p] = "send"]
                /\ UNCHANGED fresult
           ELSE /\ fresult' = [fresult EXCEPT ![p] = FetchResult("QuotaExceeded", "")]
                /\ fpc' = [fpc EXCEPT ![p] = "done"]
                /\ UNCHANGED fcred
    /\ UNCHANGED <<fkey, fretried, fhttp, fquotas, freceived,
                   exhausted, marked, cache, written>>
    /\ UNCHANGED outsideFetch

\* issue the HTTP GET with the credential attached
FetchSend(p) ==
    /\ fpc[p] = "send"
    /\ fpc' = [fpc EXCEPT ![p] = "await"]
    /\ fhttp' = [fhttp EXCEPT ![p] = @ + 1]
    /\ UNCHANGED <<fkey, fcred, fretried, fquotas, fresult, freceived,
                   exhausted, marked, cache, written>>
    /\ UNCHANGED outsideFetch

\* the response arrives and is classified
FetchReceive(p) ==
    \E resp \in HttpResponses :
        LET kind == classify(resp)
            retry == shouldRetry(kind, fretried[p])
        IN  /\ fpc[p] = "await"
            /\ IF kind = "QuotaExceeded"
               THEN /\ exhausted' = markExhausted(exhausted, fcred[p])
                    /\ marked' = IF fcred[p] \in Range(marked) THEN marked
                                 ELSE Append(marked, fcred[p])
                    /\ fquotas' = [fquotas EXCEPT ![p] = @ + 1]
               ELSE UNCHANGED <<exhausted, marked, fquotas>>
            /\ IF cacheable(kind)
               THEN /\ cache' = set(cache, fkey[p], resp.body, FetchTtl, clock)
                    /\ written' = [written EXCEPT ![fkey[p]] =
                                      Written("set", resp.body, clock, FetchTtl)]
               ELSE UNCHANGED <<cache, written>>
            /\ freceived' = IF kind = "ok"
                            THEN [freceived EXCEPT ![fkey[p]] = @ \cup {resp.body}]
                            ELSE freceived
            /\ IF retry
               THEN /\ fretried' = [fretried EXCEPT ![p] = TRUE]
                    /\ fpc' = [fpc EXCEPT ![p] = "select"]
                    /\ UNCHANGED fresult
               ELSE /\ fresult' = [fresult EXCEPT ![p] = FetchResult(kind, resp.body)]
                    /\ fpc' = [fpc EXCEPT ![p] = "done"]
                    /\ UNCHANGED fretried
            /\ UNCHANGED <<fkey, fcred, fhttp>>
            /\ UNCHANGED outsideFetch

\* the Upstream Client under concurrent callers
FetchNext ==
    \E p \in Callers :
        \/ FetchStart(p)
        \/ FetchLookup(p)
        \/ FetchSelect(p)
        \/ FetchSend(p)
        \/ FetchReceive(p)

FetchSpec == Init /\ [][FetchNext]_vars

\* a sign-up request; Date.now() reads the clock
Signup ==
    \E email \in Emails, password \in Passwords, name \in Names,
       up \in BOOLEAN :
        LET body == SignupBody(email, password, name)
            out == POST(body, users, clock, up)
        IN  /\ credentials' = body
            /\ dbUp' = up
            /\ users' = out.users
            /\ signupResponse' = out.response
            /\ userOp' = "signup"
            /\ signedUp' =
                   IF out.response.status = 201
                   THEN signedUp \cup {[email |-> email, password |-> password,
                                        id |-> out.response.user[1].id]}
                   ELSE signedUp
            /\ UNCHANGED authorized
            /\ UNCHANGED outsideUsers

\* a sign-in with email and password
Authorize ==
    \E email \in Emails, password \in Passwords, up \in BOOLEAN :
        LET creds == SignupBody(email, password, <<>>)
        IN  /\ credentials' = creds
            /\ dbUp' = up
            /\ authorized' = authorize(creds, users, up)
            /\ userOp' = "authorize"
            /\ UNCHANGED <<users, signupResponse, signedUp>>
            /\ UNCHANGED outsideUsers

\* time passes between requests
UserTick ==
    /\ clock < MaxClock
    /\ clock' = clock + 1
    /\ UNCHANGED <<cache, written, cacheGot, cacheOp>>
    /\ UNCHANGED <<favVars, rotVars, fetchVars, userVars, postVars, raceVars,
                   jwtVars>>

\* sign-up and sign-in, request after request
UserNext ==
    \/ Signup
    \/ Authorize
    \/ UserTick

UserSpec == Init /\ [][UserNext]_vars

\* the requests of one burst are sent, all with the same recipeId
PostBegin ==
    /\ \A p \in Posters : ppc[p] = "idle"
    /\ \E recipeId \in RecipeIds : postBody' = Body(TRUE, recipeId)
    /\ ppc' = [p \in Posters |-> "arrived"]
    /\ UNCHANGED <<store, presponse>>
    /\ UNCHANGED outsidePost

\* the handler starts on request p: a body without recipeId is answered at
\* once, any other one waits for the database
PostValidate(p) ==
    /\ ppc[p] = "arrived"
    /\ IF notRecipeId(postBody)
       THEN /\ presponse' = [presponse EXCEPT ![p] =
                   handler(Request("POST", postBody), store, NotCalled).response]
            /\ ppc' = [ppc EXCEPT ![p] = "done"]
       ELSE /\ ppc' = [ppc EXCEPT ![p] = "create"]
            /\ UNCHANGED presponse
    /\ UNCHANGED <<store, postBody>>
    /\ UNCHANGED outsidePost

\* the database executes the create of request p and the handler answers
PostCreate(p) ==
    /\ ppc[p] = "create"
    /\ LET out == handler(Request("POST", postBody), store, NotCalled)
       IN  /\ store' = out.store
           /\ presponse' = [presponse EXCEPT ![p] = out.response]
    /\ ppc' = [ppc EXCEPT ![p] = "done"]
    /\ UNCHANGED postBody
    /\ UNCHANGED outsidePost

\* concurrent POST requests, interleaved at the database
PostNext ==
    \/ PostBegin
    \/ \E p \in Posters : PostValidate(p) \/ PostCreate(p)

PostSpec == Init /\ [][PostNext]_vars

\* the requests of one burst are sent, their emails equal after trimming
\* and lower-casing
RaceBegin ==
    /\ \A p \in Racers : rpc[p] = "idle"
    /\ \E emails \in [Racers -> RaceEmails] :
           rbody' = [p \in Racers |->
                        SignupBody(emails[p], <<"s", "e", "c", "r", "e", "t">>,
                                   <<" ", "N">>)]
    /\ rpc' = [p \in Racers |-> "arrived"]
    /\ UNCHANGED <<users, clock, rchecked, rresponse>>
    /\ UNCHANGED <<cache, written, cacheGot, cacheOp>>
    /\ UNCHANGED <<favVars, rotVars, fetchVars, userOp, credentials, dbUp,
                   signupResponse, authorized, signedUp, postVars, jwtVars>>

\* request p is validated and looks for an existing user
RaceCheck(p) ==
    /\ rpc[p] = "arrived"
    /\ LET stopped == checkRequest(rbody[p], users, TRUE)
       IN  IF stopped # <<>>
           THEN /\ rresponse' = [rresponse EXCEPT ![p] = stopped[1].response]
                /\ rpc' = [rpc EXCEPT ![p] = "done"]
                /\ UNCHANGED rchecked
           ELSE /\ rpc' = [rpc EXCEPT ![p] = "create"]
                /\ rchecked' = [rchecked EXCEPT ![p] = TRUE]
                /\ UNCHANGED rresponse
    /\ UNCHANGED <<users, rbody>>
    /\ UNCHANGED outsideRace

\* request p creates the user and answers
RaceCreate(p) ==
    /\ rpc[p] = "create"
    /\ LET out == createAccount(rbody[p], users, clock)
       IN  /\ users' = out.users
           /\ rresponse' = [rresponse EXCEPT ![p] = out.response]
    /\ rpc' = [rpc EXCEPT ![p] = "done"]
    /\ UNCHANGED <<rbody, rchecked>>
    /\ UNCHANGED outsideRace

\* concurrent sign-up requests, interleaved at the database
RaceNext ==
    \/ RaceBegin
    \/ UserTick
    \/ \E p \in Racers : RaceCheck(p) \/ RaceCreate(p)

RaceSpec == Init /\ [][RaceNext]_vars

\* a sign-in: NextAuth calls jwt with a new token, the user and the account
SignIn ==
    \E user \in JwtUsers, account \in Accounts, profile \in Profiles :
        /\ jwtArgs' = JwtArgs(<<user>>, account, profile)
        /\ token' = jwt(DefaultToken(user), <<user>>, account, profile, clock)
        /\ signedInWith' = account.provider
        /\ session' = NoSession
        /\ jwtOp' = "signIn"
        /\ UNCHANGED outsideJwt

\* the JWT is read again: jwt is called with the token alone
Refresh ==
    /\ signedInWith # "none"
    /\ jwtArgs' = JwtArgs(<<>>, NoAccount, NoProfile)
    /\ token' = jwt(token, <<>>, NoAccount, NoProfile, clock)
    /\ jwtOp' = "refresh"
    /\ UNCHANGED <<session, signedInWith>>
    /\ UNCHANGED outsideJwt

\* the session is checked: session is called with the token
GetSession ==
    /\ signedInWith # "none"
    /\ session' = sessionCallback(DefaultSession(token), token)
    /\ jwtOp' = "session"
    /\ UNCHANGED <<token, jwtArgs, signedInWith>>
    /\ UNCHANGED outsideJwt

\* sign-ins, token reads and session checks
JwtNext ==
    \/ SignIn
    \/ Refresh
    \/ GetSession
    \/ UserTick

JwtSpec == Init /\ [][JwtNext]_vars

----------------------------------------------------------------------------
(* Properties *)

\* a step that handles a request (the Key Rotator is left alone)
HandlerStep == UNCHANGED rotVars

results == response.body.results

ResultIds == {results[i].id : i \in 1..Len(results)}

OnePerStoredIdInOrder ==
    /\ Len(results) = Len(store)
    /\ \A i \in 1..Len(store) : results[i].id = store[i].recipeId

\* C1: a GET over a non-empty store whose upstream lookup fails with quota
\* exhaustion returns one degraded record per stored ID, in the order of the
\* stored IDs, each with the stored ID as its id and flagged API-unavailable.
C1_DegradedOnePerStoredId ==
    (request.method = "GET" /\ upstream.kind = "QuotaExceeded") =>
        /\ Len(store) > 0
        /\ OnePerStoredIdInOrder
        /\ \A i \in 1..Len(results) : results[i].apiUnavailable

C1_Witness ==
    /\ request.method = "GET"
    /\ upstream.kind = "QuotaExceeded"
    /\ Len(store) >= 2
    /\ Len(results) = Len(store)
    /\ results[1].apiUnavailable

\* C2: whatever POSTs and DELETEs came before, a GET that fails only by
\* upstream quota exhaustion answers 200 with the explanatory message and
\* lists exactly the IDs the store holds.
C2_QuotaNeverErrors ==
    (request.method = "GET" /\ upstream.kind = "QuotaExceeded") =>
        /\ response.status = 200
        /\ response.body.message = apiLimitMessage
        /\ ResultIds = StoredIds(store)

C2_Witness ==
    /\ request.method = "GET"
    /\ upstream.kind = "QuotaExceeded"
    /\ upstream.error.code # 402
    /\ response.status = 200
    /\ Cardinality(ResultIds) = MaxRecipes

C4_EmptyNoUpstream ==
    (request.method = "GET" /\ Len(store) = 0) =>
        /\ response.status = 200
        /\ response.body.kind = "results"
        /\ results = <<>>
        /\ upstreamCalls = 0
        /\ upstream = NotCalled

C4_Witness ==
    /\ request.method = "GET"
    /\ Len(store) = 0
    /\ response.status = 200
    /\ upstreamCalls = 0

\* C5: a GET whose upstream lookup fails with a Fatal or Transient error
\* returns no degraded records; the error surfaces as a 5xx response.
C5_OtherErrorsPropagate ==
    (request.method = "GET" /\ upstream.kind \in {"Fatal", "Transient"}) =>
        /\ response.status >= 500
        /\ response.status <= 599
        /\ response.body.kind = "error"
        /\ results = <<>>

C5_Witness ==
    /\ request.method = "GET"
    /\ upstream.kind = "Transient"
    /\ response.status = 500
    /\ Len(store) > 0

\* C6: POST answers 201 with the created record when recipeId is given and
\* not yet favourited, 400 when recipeId is missing, and 409 "Recipe is
\* already in favorites" when recipeId is already in the store.
C6_PostStatuses ==
    [][(HandlerStep /\ request'.method = "POST") =>
          LET body == request'.body
          IN  /\ ~body.has => response'.status = 400
              /\ (body.has /\ body.recipeId \notin StoredIds(store)) =>
                     /\ response'.status = 201
                     /\ response'.body.record = <<Row(body.recipeId)>>
              /\ (body.has /\ body.recipeId \in StoredIds(store)) =>
                     /\ response'.status = 409
                     /\ response'.body.error = "Recipe is already in favorites"
      ]_vars

\* C7: DELETE with a recipeId in the body answers 204 and leaves the store
\* without that recipeId, in every store state; without recipeId it answers
\* 400.
C7_DeleteStatuses ==
    [][(HandlerStep /\ request'.method = "DELETE") =>
          LET body == request'.body
          IN  /\ ~body.has => response'.status = 400
              /\ body.has =>
                     /\ response'.status = 204
                     /\ body.recipeId \notin StoredIds(store')
      ]_vars

\* C8: GET never changes the favourites store, on the success path, the
\* degraded path and the error path alike.
C8_GetLeavesStore ==
    [][(HandlerStep /\ request'.method = "GET") =>
          /\ StoredIds(store') = StoredIds(store)
          /\ store' = store
      ]_vars

C8_Witness ==
    /\ request.method = "GET"
    /\ upstream.kind = "Fatal"
    /\ response.status = 500
    /\ Len(store) = MaxRecipes

\* C9: every response carries the permissive CORS headers, whatever the
\* method and the outcome; OPTIONS answers 200 with an empty body and
\* touches neither the store nor the upstream.
C9_CorsEverywhere ==
    [][HandlerStep =>
          /\ <<"Access-Control-Allow-Origin", "*">> \in response'.headers
          /\ <<"Access-Control-Allow-Methods", "GET, POST, DELETE, OPTIONS">>
                 \in response'.headers
          /\ <<"Access-Control-Allow-Headers", "Content-Type">>
                 \in response'.headers
          /\ request'.method = "OPTIONS" =>
                 /\ response'.status = 200
                 /\ response'.body = EmptyBody
                 /\ store' = store
                 /\ upstreamCalls' = 0
      ]_vars

C9_Witness ==
    /\ request.method = "OPTIONS"
    /\ response.status = 200
    /\ Len(store) > 0
    /\ Cardinality(response.headers) = 3

\* C10: selectCredential returns the first credential in priority order
\* that markExhausted was never called for, never one it was called for,
\* and NoCredentialsAvailable when it was called for every credential.
C10_SelectSkipsExhausted ==
    rotatorOp = "select" =>
        /\ selected.ok => selected.credential \notin Range(marked)
        /\ Range(marked) = Credentials => selected = NoCredentialsAvailable
        /\ Range(marked) # Credentials =>
               /\ selected.ok
               /\ selected.credential \in Credentials \ Range(marked)
               /\ \A c \in Credentials \ Range(marked) :
                      selected.credential <= c

C10_Witness ==
    /\ rotatorOp = "select"
    /\ selected.ok
    /\ selected.credential = NumCredentials
    /\ Len(marked) = NumCredentials - 1

\* C20: a favourites request answered with an error status (POST 400 or
\* 409, DELETE 400, any request 500) leaves the store as it was before.
C20_ErrorsLeaveStore ==
    [][(HandlerStep /\ response'.status \in {400, 409, 500}) =>
          store' = store
      ]_vars

C20_Witness ==
    /\ request.method = "POST"
    /\ response.status = 409
    /\ Len(store) >= 2

\* C13: after set(k, v, ttl), get(k) returns v at every time before the TTL
\* has elapsed and Miss at every time after it has elapsed; after
\* invalidate(k), get(k) returns Miss until the next set(k, ...).
C13_CacheTtl ==
    cacheOp = "get" =>
        LET w == written[cacheGot.key]
        IN  /\ (w.kind = "set" /\ clock < w.at + w.ttl) =>
                   cacheGot.result = Hit(w.value)
            /\ (w.kind = "set" /\ clock > w.at + w.ttl) =>
                   cacheGot.result = Miss
            /\ w.kind = "invalidate" => cacheGot.result = Miss

C13_Witness ==
    /\ cacheOp = "get"
    /\ written[cacheGot.key].kind = "set"
    /\ clock > written[cacheGot.key].at + written[cacheGot.key].ttl
    /\ cache[cacheGot.key].present
    /\ cacheGot.result = Miss

\* C11: in a fetch call a quota response marks the credential used as
\* exhausted and is retried at most once; Transient and Fatal failures are
\* never retried; so a call issues at most two HTTP requests, then returns.
C11_AtMostOneRetry ==
    [][\A p \in Callers :
          /\ fhttp'[p] <= 2
          /\ fhttp'[p] <= fquotas'[p] + 1
          /\ (fpc[p] = "await" /\ fpc'[p] # "await") =>
                 /\ fquotas'[p] > fquotas[p] => fcred[p] \in exhausted'
                 /\ fquotas'[p] = fquotas[p] => fpc'[p] = "done"
                 /\ fhttp[p] = 2 => fpc'[p] = "done"
      ]_vars

C11_Witness ==
    \E p \in Callers :
        /\ fpc[p] = "done"
        /\ fhttp[p] = 2
        /\ fquotas[p] = 1
        /\ fresult[p].kind = "Transient"

\* C12: when every credential is already exhausted at a cache miss, fetch
\* returns QuotaExceeded and issues no HTTP request.
C12_AllExhaustedNoRequest ==
    [][\A p \in Callers :
          (/\ fpc[p] = "select"
           /\ fpc'[p] # "select"
           /\ fhttp[p] = 0
           /\ exhausted = Credentials) =>
              /\ fpc'[p] = "done"
              /\ fresult'[p].kind = "QuotaExceeded"
              /\ fhttp'[p] = 0
      ]_vars

C12_Witness ==
    \E p \in Callers :
        /\ fpc[p] = "done"
        /\ fresult[p].kind = "QuotaExceeded"
        /\ fhttp[p] = 0
        /\ exhausted = Credentials

\* C14: under concurrent callers the exhaustion flags only grow, marking an
\* exhausted credential again changes nothing, and the flags always equal
\* the set obtained by marking each marked credential once.
C14_MarkMonotonicIdempotent ==
    [][/\ exhausted \subseteq exhausted'
       /\ exhausted' = Range(marked')
       /\ \A p \in Callers :
              (fquotas'[p] > fquotas[p] /\ fcred[p] \in exhausted) =>
                  exhausted' = exhausted
      ]_vars

C14_Witness ==
    /\ \A p \in Callers : fquotas[p] = 1 /\ fretried[p]
    /\ Len(marked) = 1
    /\ exhausted = {marked[1]}

\* C15: two concurrent fetches of one key that both miss may both call the
\* upstream; afterwards the cache entry of the key holds the value set
\* last, which is one of their two 2xx payloads, never an error.
C15_LastWriteWins ==
    /\ \A k \in Keys :
           cache[k].present =>
               /\ written[k].kind = "set"
               /\ cache[k].value = written[k].value
               /\ cache[k].value \in freceived[k]
    /\ \A p, q \in Callers :
           (/\ p # q
            /\ fkey[p] = fkey[q]
            /\ fpc[p] = "done" /\ fpc[q] = "done"
            /\ fresult[p].kind = "ok" /\ fresult[q].kind = "ok"
            /\ fhttp[p] >= 1 /\ fhttp[q] >= 1) =>
               /\ cache[fkey[p]].present
               /\ cache[fkey[p]].value \in {fresult[p].value, fresult[q].value}

C15_Witness ==
    /\ fkey["a"] = fkey["b"]
    /\ fpc["a"] = "done" /\ fpc["b"] = "done"
    /\ fhttp["a"] = 1 /\ fhttp["b"] = 1
    /\ fresult["a"] = FetchResult("ok", "v1")
    /\ fresult["b"] = FetchResult("ok", "v2")
    /\ cache[fkey["a"]].value = "v1"

----------------------------------------------------------------------------
(* Sign-in and sign-up *)

\* the users a sign-in with these credentials may be answered with
Matching(creds, us) ==
    {u \in us : /\ u.email = toLowerCase(trim(creds.email))
                /\ u.password # NoPassword
                /\ u.password.hashed
                /\ u.password.text = creds.password}

\* C16: authorize returns a user object only when the database has a user
\* for the trimmed, lower-cased email, that user has a password and the
\* supplied password matches its hash; it returns null when email or
\* password is missing, no such user exists, the user has no password, the
\* password does not match, or the lookup throws.
C16_AuthorizeExactly ==
    userOp = "authorize" =>
        IF /\ credentials.email # <<>>
           /\ credentials.password # <<>>
           /\ dbUp
           /\ Matching(credentials, users) # {}
        THEN /\ authorized # <<>>
             /\ \E u \in Matching(credentials, users) :
                    /\ authorized[1].id = u.id
                    /\ authorized[1].email = u.email
        ELSE authorized = <<>>

\* a sign-in with an upper-case spelling of the email was answered with the
\* user, and the store also holds a user without password
C16_Witness ==
    /\ userOp = "authorize"
    /\ authorized # <<>>
    /\ credentials.email = <<"A", "@", "x", ".", "c">>
    /\ \E u \in users : u.password = NoPassword

\* a step of the sign-up handler
SignupStep == userOp' = "signup" /\ clock' = clock

\* C17: sign-up validates in this order and stops at the first failure:
\* missing email or password 400, password shorter than 6 characters 400,
\* email not matching the format 400, existing user with the trimmed,
\* lower-cased email 409, otherwise exactly one user is created and the
\* answer is 201; a request answered 400 or 409 creates no user.  (Requests
\* during which the database is unreachable are left aside.)
C17_ValidationOrder ==
    [][(SignupStep /\ dbUp') =>
          LET body == credentials'
              status == signupResponse'.status
              error == signupResponse'.error
          IN  /\ IF body.email = <<>> \/ body.password = <<>>
                 THEN status = 400 /\ error = "Email and password are required"
                 ELSE IF Len(body.password) < 6
                 THEN /\ status = 400
                      /\ error = "Password must be at least 6 characters long"
                 ELSE IF ~emailRegexTest(body.email)
                 THEN status = 400 /\ error = "Invalid email format"
                 ELSE IF \E u \in users : u.email = toLowerCase(trim(body.email))
                 THEN status = 409
                 ELSE /\ status = 201
                      /\ users \subseteq users'
                      /\ Cardinality(users' \ users) = 1
              /\ status \in {400, 409} => users' = users]_vars

\* C18: every user record created by sign-up stores the bcrypt hash of the
\* password and never the plaintext, and no sign-up response body (201,
\* 400, 409 or 500) contains the password or its hash.
C18_PasswordNeverExposed ==
    /\ \A u \in users :
           u.password # NoPassword =>
               /\ u.password.hashed
               /\ u.password.rounds = 10
               /\ u.password # Stored(FALSE, u.password.text, 0)
    /\ (userOp = "signup" /\ signupResponse.status = 201) =>
           \E u \in users :
               /\ u.id = signupResponse.user[1].id
               /\ u.password.hashed
               /\ u.password.text = credentials.password
    /\ signupResponse.status \in {0, 201, 400, 409, 500}
    /\ signupResponse.user # <<>> =>
           /\ signupResponse.status = 201
           /\ DOMAIN signupResponse.user[1] = {"id", "email", "name"}

\* a sign-up was answered 201 and another one 500 while both users created
\* so far are in the store
C18_Witness ==
    /\ userOp = "signup"
    /\ signupResponse.status = 500
    /\ Cardinality({u \in users : u.password # NoPassword}) = 2

----------------------------------------------------------------------------
(* Concurrent POST requests *)

\* the rows of the store with this recipeId
RowsOf(recipeId) == {i \in 1..Len(store) : store[i].recipeId = recipeId}

\* C19: for any interleaving of concurrent POST requests carrying the same
\* recipeId, the store ends with exactly one record for that recipeId,
\* exactly one request is answered 201 and every other one 409.
C19_OneWinner ==
    (\A p \in Posters : ppc[p] = "done") =>
        /\ Cardinality(RowsOf(postBody.recipeId)) = 1
        /\ \E w \in Posters :
               /\ presponse[w].status = 201
               /\ \A p \in Posters \ {w} : presponse[p].status = 409

----------------------------------------------------------------------------
(* Validation of recipeId *)

\* C21: POST and DELETE answer 400 exactly when recipeId is absent from the
\* request body: every request that supplies a recipeId value, the integer
\* 0 included, passes validation and reaches the store.
C21_BadRequestOnlyWhenAbsent ==
    [][(HandlerStep /\ request'.method \in {"POST", "DELETE"}) =>
          (response'.status = 400 <=> ~request'.body.has)]_vars

----------------------------------------------------------------------------
(* Sign-up conflicts *)

\* C22: sign-up answers 409 "User already exists" only when an account with
\* the same trimmed, lower-cased email is in the store at the time of the
\* request; sign-ups with different emails never make one another fail with
\* 409, also when their generated user ids coincide.
C22_ConflictOnlyOnSameEmail ==
    [][(SignupStep /\ signupResponse'.status = 409) =>
          /\ signupResponse'.error = "User already exists"
          /\ \E u \in users : u.email = toLowerCase(trim(credentials'.email))]_vars

----------------------------------------------------------------------------
(* Sign-up followed by sign-in *)

\* C24: after sign-up answered 201 for email E and password P, authorize
\* with any email equal to E after trimming and lower-casing and with
\* password P returns the user whose id is the id sign-up created, and
\* authorize with such an email and any other password returns null.  (The
\* database answers the lookup.)
C24_SignupThenSignIn ==
    (userOp = "authorize" /\ dbUp) =>
        \A s \in signedUp :
            toLowerCase(trim(credentials.email)) = toLowerCase(trim(s.email)) =>
                IF credentials.password = s.password
                THEN authorized # <<>> /\ authorized[1].id = s.id
                ELSE authorized = <<>>

\* a sign-in was answered with the user although the email was not typed as
\* at sign-up
C24_Witness ==
    /\ userOp = "authorize"
    /\ dbUp
    /\ authorized # <<>>
    /\ \E s \in signedUp :
           /\ s.email # credentials.email
           /\ authorized[1].id = s.id

----------------------------------------------------------------------------
(* Concurrent sign-up requests *)

\* the users stored under the email the requests race for
RaceUsers == {u \in users : u.email = <<"a", "@", "x", ".", "c">>}

\* the requests answered with this status
Answered(status) == {p \in Racers : rresponse[p].status = status}

----------------------------------------------------------------------------
(* NextAuth callbacks *)

\* a step that is a call of the jwt callback
JwtStep == clock' = clock /\ jwtOp' \in {"signIn", "refresh"}

\* C25: the jwt callback copies the provider's access token, refresh token
\* and expiry onto the token only when the sign-in account's provider is
\* not "credentials"; a token produced by a Credentials sign-in, and the
\* session built from it, never carries an access token.
C25_NoAccessTokenForCredentials ==
    [][/\ JwtStep =>
              LET account == jwtArgs'.account
                  before == IF jwtOp' = "signIn" THEN NoToken ELSE token
              IN  (~account.present \/ account.provider = "credentials") =>
                      /\ token'.accessToken = before.accessToken
                      /\ token'.refreshToken = before.refreshToken
                      /\ token'.expiresAt = before.expiresAt
       /\ signedInWith' = "credentials" =>
              /\ ~token'.accessToken.defined
              /\ ~session'.user.accessToken.defined]_vars

\* the session of a Credentials sign-in whose account carried an access
\* token has been built
C25_Witness ==
    /\ signedInWith = "credentials"
    /\ jwtOp = "session"
    /\ jwtArgs.account.provider = "credentials"
    /\ jwtArgs.account.access_token.defined
    /\ session.hasUser
    /\ session.user.id.defined

\* C26: the jwt callback sets token.id to user.id when the user has one;
\* otherwise to the email local part followed by "_" and the current
\* timestamp; and when the user has neither an id nor an email, to "user_"
\* followed by the current timestamp.
C26_TokenId ==
    [][(clock' = clock /\ jwtOp' = "signIn") =>
          LET user == jwtArgs'.user[1]
          IN  token'.id =
                  IF user.id.defined
                  THEN user.id
                  ELSE IF user.email.defined
                  THEN Value(TRUE, localPart(user.email.text) \o <<"_">>, <<clock>>)
                  ELSE Value(TRUE, <<"user_">>, <<clock>>)]_vars

====
